---- MODULE Spec2Model ----
(***************************************************************************)
(* Model of the lab-membership backend of src/server.js: the Express       *)
(* routes over the Mongoose collections, the authenticate and              *)
(* checkTeamMembership middlewares, bcrypt and jsonwebtoken as used there. *)
(*                                                                         *)
(* A request is a slot of `req`.  Each action is one store operation of a  *)
(* route together with the synchronous code around it: the code between    *)
(* two awaits runs without interleaving in Node's single thread, and the   *)
(* store operations of different requests interleave freely.               *)
(***************************************************************************)
EXTENDS Integers, Sequences, FiniteSets, Bags, TLC

(***************************************************************************)
(* Bounds of the model.                                                    *)
(***************************************************************************)
MaxUsers == 2
MaxReq == 2
NumSalts == 2
MaxBlobs == 1
MaxTokens == 2
MaxPubs == 6      \* publications in the store
FewPubs == 1      \* publications where their number is not the subject
SomePubs == 2     \* publications where their content is the subject
MaxFlat == 2       \* flat documents in the store
FewFlat == 1       \* flat documents where their number is not the subject
MaxTeam == 2

Reqs == 1..MaxReq
OneReq == {1}      \* the slot used where requests come one at a time
Salts == 1..NumSalts

(***************************************************************************)
(* Input values.  Absent stands for a field the request does not carry     *)
(* (undefined in the handler).                                             *)
(***************************************************************************)
Absent == "<undefined>"
Emails == {"a@x.com", "b@x.com"}
RootEmail == "a@x.com"
Names == {"Ann"}
Roles == {"PhD Student", "Researcher"}
GoodPasswords == {"secret123", "hunter2"}
Passwords == GoodPasswords \cup {"", "  "}
RootPassword == "secret123"
BoolStrings == {"true", "false"}
Null == "null"
CurrentYear == 2025      \* new Date().getFullYear()
ListLimit == 5           \* .limit(5)
AbsentAuthors == <<0>>   \* a body without the authors key

VARIABLES
    users,     \* User collection: sequence of documents, _id = index
    team,      \* Team collection: set of documents
    pubs,      \* Publication collection: sequence of documents, _id = index
    flat,      \* per flat content entity, its collection: sequence of documents
    blobs,     \* object storage: number of objects put so far
    issued,    \* tokens signed by login so far
    req,       \* requests in flight, per slot
    last,      \* the response sent most recently
    registeredWith  \* history: per user, the credentials given at registration

vars == <<users, team, pubs, flat, blobs, issued, req, last, registeredWith>>

(***************************************************************************)
(* bcrypt, as the routes use it.  A digest is modelled symbolically by the *)
(* salt and the part of the plaintext it was computed from; a stored       *)
(* password that no hash call produced has kind "plain".                   *)
(***************************************************************************)
\* bcrypt reads the first 72 bytes of the text it is given
BcryptBytes == 72

Truncate(password) ==
    IF Len(password) > BcryptBytes THEN SubSeq(password, 1, BcryptBytes)
    ELSE password

BcryptHash(password, salt) ==
    [kind |-> "bcrypt", salt |-> salt, pw |-> Truncate(password)]

PlainText(password) ==
    [kind |-> "plain", salt |-> 0, pw |-> password]

BcryptCompare(password, stored) ==
    stored.kind = "bcrypt" /\ stored = BcryptHash(password, stored.salt)

(***************************************************************************)
(* jsonwebtoken, as the routes use it.  A token carries its payload and a  *)
(* signature, modelled symbolically by the payload and the key it was      *)
(* computed from.  A segment of kind "text" is any text that is no token.  *)
(***************************************************************************)
JWT_SECRET == "process.env.JWT_SECRET"
OtherKey == "another secret"
NoPayload == [_id |-> 0, role |-> ""]

TextSeg(t) ==
    [kind |-> "text", text |-> t, payload |-> NoPayload, sigOf |-> NoPayload, key |-> ""]

Undefined == TextSeg(Absent)
NoToken == TextSeg("")

JwtSign(payload, key) ==
    [kind |-> "jwt", text |-> "", payload |-> payload, sigOf |-> payload, key |-> key]

\* jwt.decode in place of jwt.verify: the payload, the signature unread
JwtDecodeOnly(token, key) ==
    IF token.kind = "jwt"
    THEN [ok |-> TRUE, decoded |-> token.payload]
    ELSE [ok |-> FALSE, decoded |-> NoPayload]

JwtVerify(token, key) ==
    IF token.kind = "jwt" /\ token.sigOf = token.payload /\ token.key = key
    THEN [ok |-> TRUE, decoded |-> token.payload]
    ELSE [ok |-> FALSE, decoded |-> NoPayload]

(***************************************************************************)
(* The Authorization header: absent, or a string, held as the list of its  *)
(* segments between spaces (what split(' ') returns).  The empty string    *)
(* splits into one empty segment.                                          *)
(***************************************************************************)
NoHeader == [present |-> FALSE, segs |-> <<>>]

HeaderOf(segs) == [present |-> TRUE, segs |-> segs]

EmptyHeader == HeaderOf(<<TextSeg("")>>)

\* !token of authenticate: undefined and the empty string are falsy
Falsy(header) == ~header.present \/ header = EmptyHeader

\* token.split(' ')[0]: the whole header where it has no space
FirstSegment(header) == header.segs[1]

\* token.split(' ')[1]
SecondSegment(header) ==
    IF Len(header.segs) >= 2 THEN header.segs[2] ELSE Undefined

(***************************************************************************)
(* Routes, named by method and path.                                       *)
(***************************************************************************)
RegisterRoute == "POST /api/users/register"
LoginRoute == "POST /api/users/login"
PatchUsersRoute == "PATCH /api/users"
UserIdRoute == "GET /api/userid"
TeamAddRoute == "POST /api/team"
TeamDelRoute == "DELETE /api/team/:userId"
TeamAlumniRoute == "PATCH /api/team/:userId/alumni"
PubCreateRoute == "POST /api/publications"
PubMyRoute == "GET /api/publications/my"
PubPatchRoute == "PATCH /api/publications/:id"
PubListRoute == "GET /api/publications"
PubYearRoute == "GET /api/publications/year/:year"
MemberRoute == "GET /api/team/:userId"

FlatEntities == {"address", "role", "about", "technology", "tutorial", "notes"}
FlatCreateRoute(e) == "POST /api/" \o e
FlatPatchRoute(e) == "PATCH /api/" \o e \o "/:id"
FlatCreateRoutes == {FlatCreateRoute(e) : e \in FlatEntities}
FlatPatchRoutes == {FlatPatchRoute(e) : e \in FlatEntities}

\* the routes declared with checkTeamMembership after authenticate
TeamRoutes == {PubCreateRoute, PubMyRoute, PubPatchRoute}

\* the roster writes
RosterRoutes == {TeamAddRoute, TeamDelRoute, TeamAlumniRoute}

\* the routes whose handler starts with the inline admin check
AdminRoutes == RosterRoutes \cup FlatCreateRoutes \cup FlatPatchRoutes

(***************************************************************************)
(* Documents.                                                              *)
(***************************************************************************)
StaleId == MaxUsers + 1     \* _id of a user removed from the store directly

\* an id in a path or a body that is no ObjectId (not 24 hex digits): the
\* cast of the query throws
BadId == -1
UserIds == 1..MaxUsers

\* the URL that put returns for the n-th stored object
Url(n) == "blob-" \o ToString(n)

\* userSchema
NewUser(name, email, role, image, hashedPassword) ==
    [name |-> name, email |-> email, role |-> role, image |-> image,
     password |-> hashedPassword, isAdmin |-> FALSE]

RootUser ==
    [name |-> "Ann", email |-> RootEmail, role |-> "Researcher", image |-> Null,
     password |-> BcryptHash(RootPassword, 1), isAdmin |-> TRUE]

\* User.findOne({ email }): the _id of the match, 0 for null
FindUserByEmail(email) ==
    IF \E i \in DOMAIN users : users[i].email = email
    THEN CHOOSE i \in DOMAIN users : users[i].email = email
    ELSE 0

\* teamSchema
TeamMember(id, userId, addedBy, isAlumni) ==
    [_id |-> id, userId |-> userId, addedBy |-> addedBy, isAlumni |-> isAlumni]

NoMember == TeamMember(0, 0, 0, FALSE)

\* req.file and req.body of a multipart request before upload.single has
\* run; after it the file is "buffered", or "none" was sent
Unparsed == "unparsed"

\* A request in flight, between two store operations: its route, the
\* operation it is about to make, the _id of req.user (the one field of it
\* that is read after an await), the Team document its handler holds and the
\* _id of the publication it has read.
InFlight(route, pc, user, member, pub) ==
    [route |-> route, pc |-> pc, user |-> user, member |-> member, pub |-> pub,
     file |-> Unparsed]

Idle == InFlight("none", "idle", 0, NoMember, 0)

\* a response: the middleware or the route whose code sent it, the status,
\* for a roster route the user id the request named (0 elsewhere), and the
\* documents of the JSON body, in order, for the routes whose returned
\* content is modelled (no document elsewhere)
Reply(by, status, userId, body) ==
    [by |-> by, status |-> status, about |-> userId, body |-> body]

About(by, status, userId) == Reply(by, status, userId, <<>>)

Response(by, status) == About(by, status, 0)

NoResponse == Response("none", 0)

\* history kept at registration: the email and the plaintext password of the
\* request; intact until a profile update submits an email or a password
Registered(email, password) ==
    [email |-> email, password |-> password, intact |-> TRUE]

(***************************************************************************)
(* The state after start-up: the store holds the one administrator, whose  *)
(* admin flag was set in the store directly; nothing is in flight.         *)
(***************************************************************************)
Init ==
    /\ users = <<RootUser>>
    /\ team = {}
    /\ pubs = <<>>
    /\ flat = [e \in FlatEntities |-> <<>>]
    /\ blobs = 0
    /\ issued = {}
    /\ req = [r \in Reqs |-> Idle]
    /\ last = NoResponse
    /\ registeredWith = <<Registered(RootEmail, RootPassword)>>

(***************************************************************************)
(* POST /api/users/register                                                *)
(***************************************************************************)
\* a registration over a schema whose email carries no unique index
RegisterNoUnique(name, email, role, password, jsonOk, file, salt) ==
    LET stored == IF file THEN blobs + 1 ELSE blobs
        image == IF file THEN Url(blobs + 1) ELSE Null
        user == NewUser(name, email, role, image, BcryptHash(password, salt))
        fail(b) == [status |-> 500, users |-> users, blobs |-> b]
    IN  IF ~jsonOk THEN fail(blobs)
        ELSE IF password = Absent THEN fail(stored)
        ELSE IF Absent \in {name, email, role} THEN fail(stored)
        ELSE [status |-> 201, users |-> Append(users, user), blobs |-> stored]

RegisterResult(name, email, role, password, jsonOk, file, salt) ==
    LET stored == IF file THEN blobs + 1 ELSE blobs
        image == IF file THEN Url(blobs + 1) ELSE Null
        user == NewUser(name, email, role, image, BcryptHash(password, salt))
        fail(b) == [status |-> 500, users |-> users, blobs |-> b]
    IN  IF ~jsonOk THEN fail(blobs)                    \* JSON.parse throws
        ELSE IF password = Absent THEN fail(stored)    \* bcrypt.hash throws
        ELSE IF Absent \in {name, email, role} THEN fail(stored)  \* required
        ELSE IF FindUserByEmail(email) # 0 THEN fail(stored)      \* unique
        ELSE [status |-> 201, users |-> Append(users, user), blobs |-> stored]

Register(name, email, role, password, jsonOk, file, salt) ==
    LET res == RegisterResult(name, email, role, password, jsonOk, file, salt)
    IN  /\ file => blobs < MaxBlobs
        /\ res.status = 201 => Len(users) < MaxUsers
        /\ users' = res.users
        /\ blobs' = res.blobs
        /\ registeredWith' =
               IF res.status = 201
               THEN Append(registeredWith, Registered(email, password))
               ELSE registeredWith
        /\ last' = Response(RegisterRoute, res.status)
        /\ UNCHANGED <<team, pubs, flat, issued, req>>

(***************************************************************************)
(* POST /api/users/login                                                   *)
(***************************************************************************)
\* a login that issues a token to whoever names an existing email
LoginSkipsCompare(email, password) ==
    LET id == FindUserByEmail(email)
    IN  IF id = 0 THEN [status |-> 400, token |-> NoToken]
        ELSE IF password = Absent
        THEN [status |-> 500, token |-> NoToken]
        ELSE [status |-> 200,
              token |-> JwtSign([_id |-> id, role |-> users[id].role], JWT_SECRET)]

LoginResult(email, password) ==
    LET id == FindUserByEmail(email)
    IN  IF id = 0 THEN [status |-> 400, token |-> NoToken]
        ELSE IF password = Absent                      \* bcrypt.compare throws
        THEN [status |-> 500, token |-> NoToken]
        ELSE IF ~BcryptCompare(password, users[id].password)
        THEN [status |-> 400, token |-> NoToken]
        ELSE [status |-> 200,
              token |-> JwtSign([_id |-> id, role |-> users[id].role], JWT_SECRET)]

Login(email, password) ==
    LET res == LoginResult(email, password)
    IN  /\ res.status = 200 =>
               res.token \in issued \/ Cardinality(issued) < MaxTokens
        /\ issued' = IF res.status = 200 THEN issued \cup {res.token} ELSE issued
        /\ last' = Response(LoginRoute, res.status)
        /\ UNCHANGED <<users, team, pubs, flat, blobs, req, registeredWith>>

(***************************************************************************)
(* What a client can put in the Authorization header: the tokens the       *)
(* service signed, tokens made from them or signed with another key, and   *)
(* text that is no token.  StaleToken was signed for a user whose document *)
(* has since been removed from the store directly.                         *)
(***************************************************************************)
StaleToken == JwtSign([_id |-> StaleId, role |-> "Researcher"], JWT_SECRET)

ClientTokens ==
    LET known == issued \cup {StaleToken}
        payloads == {[_id |-> i, role |-> ro] : i \in DOMAIN users, ro \in Roles}
    IN  known
        \cup {JwtSign(p, OtherKey) : p \in payloads}
        \cup {[t EXCEPT !.payload = p] : t \in known, p \in payloads}
        \cup {TextSeg("garbage")}

ClientHeaders ==
    {NoHeader, EmptyHeader, HeaderOf(<<TextSeg("Bearer")>>)}
    \cup {HeaderOf(<<t>>) : t \in ClientTokens}
    \cup {HeaderOf(<<TextSeg(s), t>>) : s \in {"Bearer", "Basic", ""}, t \in ClientTokens}
    \cup {HeaderOf(<<TextSeg("Bearer"), TextSeg(""), t>>) : t \in ClientTokens}
    \cup {HeaderOf(<<TextSeg("Bearer"), t, TextSeg("garbage")>>) : t \in ClientTokens}

Bearer(t) == HeaderOf(<<TextSeg("Bearer"), t>>)

\* the headers of well-behaved clients: none, or a token the service issued
BearerHeaders == {NoHeader} \cup {Bearer(t) : t \in issued}

(***************************************************************************)
(* authenticate                                                            *)
(***************************************************************************)
\* an authenticate that turns away a token whose role is no longer the
\* stored one
AuthenticateChecksRole(header) ==
    IF Falsy(header) THEN [status |-> 401, id |-> 0]
    ELSE LET v == JwtVerify(SecondSegment(header), JWT_SECRET)
         IN  IF ~v.ok THEN [status |-> 400, id |-> 0]
             ELSE IF v.decoded._id \notin DOMAIN users
                     \/ users[v.decoded._id].role # v.decoded.role
             THEN [status |-> 403, id |-> 0]
             ELSE [status |-> 0, id |-> v.decoded._id]

\* an authenticate that attaches no stored user: it trusts the decoded _id
AuthenticateSkipsLookup(header) ==
    IF Falsy(header) THEN [status |-> 401, id |-> 0]
    ELSE LET v == JwtVerify(SecondSegment(header), JWT_SECRET)
         IN  IF ~v.ok THEN [status |-> 400, id |-> 0]
             ELSE [status |-> 0, id |-> v.decoded._id]

AuthenticateResult(header) ==
    IF Falsy(header) THEN [status |-> 401, id |-> 0]
    ELSE LET v == JwtVerify(SecondSegment(header), JWT_SECRET)
         IN  IF ~v.ok THEN [status |-> 400, id |-> 0]
             ELSE IF v.decoded._id \notin DOMAIN users
             THEN [status |-> 403, id |-> 0]
             ELSE [status |-> 0, id |-> v.decoded._id]    \* req.user = user; next()

\* What runs at once when authenticate calls next(), before the next store
\* operation of the route: the answer of GET /api/userid, or the inline admin
\* check on the document authenticate has just attached.  NoResponse when the
\* route goes on to a store operation.
\* the same, with the admin check missing from the PATCH routes of the
\* flat entities
AdminCheckOnCreateOnly(route, id) ==
    IF route = UserIdRoute THEN Response(route, 200)
    ELSE IF route \in RosterRoutes \cup FlatCreateRoutes /\ ~users[id].isAdmin
    THEN Response(route, 403)
    ELSE NoResponse

AfterAuthenticate(route, id) ==
    IF route = UserIdRoute THEN Response(route, 200)
    ELSE IF route \in AdminRoutes /\ ~users[id].isAdmin THEN Response(route, 403)
    ELSE NoResponse

\* a team route declared with checkTeamMembership before authenticate: the
\* request reaches the gate with no user attached
GateBeforeAuthenticate(r, route, header) ==
    /\ req[r] = Idle
    /\ req' = [req EXCEPT ![r] =
                  InFlight(route,
                           IF route \in TeamRoutes
                           THEN "checkTeamMembership" ELSE "handler",
                           0, NoMember, 0)]
    /\ UNCHANGED <<users, team, pubs, flat, blobs, issued, last, registeredWith>>

\* A request arrives on a route declared with authenticate.
Authenticate(r, route, header) ==
    LET a == AuthenticateResult(header)
    IN  /\ req[r] = Idle
        /\ IF a.status # 0
           THEN /\ last' = Response("authenticate", a.status)
                /\ UNCHANGED req
           ELSE IF AfterAuthenticate(route, a.id) # NoResponse
           THEN /\ last' = AfterAuthenticate(route, a.id)
                /\ UNCHANGED req
           ELSE /\ req' = [req EXCEPT ![r] =
                       InFlight(route,
                                IF route \in TeamRoutes
                                THEN "checkTeamMembership" ELSE "handler",
                                a.id, NoMember, 0)]
                /\ UNCHANGED last
        /\ UNCHANGED <<users, team, pubs, flat, blobs, issued, registeredWith>>

(***************************************************************************)
(* PATCH /api/users                                                        *)
(***************************************************************************)
\* String.prototype.trim on the passwords of the model
Trim(s) == IF s = "  " THEN "" ELSE s

\* the cast of a submitted isAdmin to the schema's Boolean
CastBoolean(s) == s = "true"

\* the value a $set leaves in a field: the submitted one when the body has it
SetField(old, submitted) == IF submitted = Absent THEN old ELSE submitted

\* a request body: every field of the model, Absent where the body has no
\* such key
UserBody(email, password, role, isAdmin, name) ==
    [email |-> email, password |-> password, role |-> role,
     isAdmin |-> isAdmin, name |-> name]

\* the update run on the document that has the submitted email, when there
\* is one, rather than on the document of req.user._id
PatchUsersByEmail(id, body, jsonOk, file, salt) ==
    LET found == IF body.email = Absent THEN 0 ELSE FindUserByEmail(body.email)
        target == IF found = 0 THEN id ELSE found
        updated ==
            [name |-> SetField(users[target].name, body.name),
             email |-> SetField(users[target].email, body.email),
             role |-> SetField(users[target].role, body.role),
             image |-> users[target].image,
             password |-> IF body.password = Absent THEN users[target].password
                          ELSE IF body.password # "" /\ Trim(body.password) # ""
                          THEN BcryptHash(body.password, salt)
                          ELSE PlainText(body.password),
             isAdmin |-> IF body.isAdmin = Absent THEN users[target].isAdmin
                         ELSE CastBoolean(body.isAdmin)]
    IN  IF ~jsonOk \/ target \notin DOMAIN users
        THEN [status |-> 500, users |-> users, blobs |-> blobs]
        ELSE [status |-> 200, users |-> [users EXCEPT ![target] = updated],
              blobs |-> blobs]

PatchUsersResult(id, body, jsonOk, file, salt) ==
    LET stored == IF file THEN blobs + 1 ELSE blobs
        password ==
            IF body.password = Absent THEN users[id].password
            ELSE IF body.password # "" /\ Trim(body.password) # ""
            THEN BcryptHash(body.password, salt)
            ELSE PlainText(body.password)
        updated ==
            [name |-> SetField(users[id].name, body.name),
             email |-> SetField(users[id].email, body.email),
             role |-> SetField(users[id].role, body.role),
             image |-> IF file THEN Url(blobs + 1) ELSE users[id].image,
             password |-> password,
             isAdmin |-> IF body.isAdmin = Absent THEN users[id].isAdmin
                         ELSE CastBoolean(body.isAdmin)]
        fail(st, b) == [status |-> st, users |-> users, blobs |-> b]
    IN  IF ~jsonOk THEN fail(500, blobs)               \* JSON.parse throws
        ELSE IF id \notin DOMAIN users THEN fail(404, stored)
        ELSE IF FindUserByEmail(updated.email) \notin {0, id}
        THEN fail(500, stored)                         \* unique index on email
        ELSE [status |-> 200, users |-> [users EXCEPT ![id] = updated],
              blobs |-> stored]

PatchUsers(r, body, jsonOk, file, salt) ==
    LET id == req[r].user
        res == PatchUsersResult(id, body, jsonOk, file, salt)
    IN  /\ req[r].pc = "handler"
        /\ req[r].route = PatchUsersRoute
        /\ file => blobs < MaxBlobs
        /\ users' = res.users
        /\ blobs' = res.blobs
        /\ registeredWith' =
               IF res.status = 200 /\ (body.email # Absent \/ body.password # Absent)
               THEN [registeredWith EXCEPT ![id].intact = FALSE]
               ELSE registeredWith
        /\ last' = Response(PatchUsersRoute, res.status)
        /\ req' = [req EXCEPT ![r] = Idle]
        /\ UNCHANGED <<team, pubs, flat, issued>>

(***************************************************************************)
(* checkTeamMembership                                                     *)
(***************************************************************************)
\* Team.findOne({ userId }): the document, NoMember for null
FindMember(userId) ==
    IF \E m \in team : m.userId = userId
    THEN CHOOSE m \in team : m.userId = userId
    ELSE NoMember

\* a gate that turns alumni away
CheckMembershipNotAlumni(id) ==
    IF FindMember(id) = NoMember \/ FindMember(id).isAlumni THEN 403 ELSE 0

\* the status the middleware answers for req.user._id = id; 0 for next()
CheckTeamMembershipResult(id) ==
    IF FindMember(id) = NoMember THEN 403 ELSE 0

\* a gate that returns without an answer and without next() when it finds
\* no Team document
CheckTeamMembershipSilent(r) ==
    /\ req[r].pc = "checkTeamMembership"
    /\ req' = [req EXCEPT ![r].pc =
                  IF CheckTeamMembershipResult(req[r].user) # 0
                  THEN "returned" ELSE "handler"]
    /\ UNCHANGED <<users, team, pubs, flat, blobs, issued, last, registeredWith>>

CheckTeamMembership(r) ==
    /\ req[r].pc = "checkTeamMembership"
    /\ IF CheckTeamMembershipResult(req[r].user) # 0
       THEN /\ last' = Response("checkTeamMembership",
                                CheckTeamMembershipResult(req[r].user))
            /\ req' = [req EXCEPT ![r] = Idle]
       ELSE /\ req' = [req EXCEPT ![r].pc = "handler"]
            /\ UNCHANGED last
    /\ UNCHANGED <<users, team, pubs, flat, blobs, issued, registeredWith>>

(***************************************************************************)
(* The roster: POST /api/team, DELETE /api/team/:userId,                   *)
(* PATCH /api/team/:userId/alumni.  A user id of 0 is a missing one.       *)
(***************************************************************************)
\* the _id the store gives a new Team document: one that no document and no
\* request in flight holds
FreshTeamId ==
    LET used == {m._id : m \in team} \cup {req[r].member._id : r \in Reqs}
    IN  CHOOSE i \in 1..(MaxTeam + MaxReq + 1) :
            i \notin used /\ \A j \in 1..(i - 1) : j \in used

\* the add of a schema whose userId carries no unique index
TeamAddNoUnique(admin, userId) ==
    IF userId = 0 THEN [status |-> 500, team |-> team]
    ELSE [status |-> 201,
          team |-> team \cup {TeamMember(FreshTeamId, userId, admin, FALSE)}]

TeamAddResult(admin, userId) ==
    IF userId = 0 THEN [status |-> 500, team |-> team]          \* required
    ELSE IF FindMember(userId) # NoMember
    THEN [status |-> 500, team |-> team]                        \* unique
    ELSE [status |-> 201,
          team |-> team \cup {TeamMember(FreshTeamId, userId, admin, FALSE)}]

TeamAdd(r, userId) ==
    LET res == TeamAddResult(req[r].user, userId)
    IN  /\ req[r].pc = "handler"
        /\ req[r].route = TeamAddRoute
        /\ res.status = 201 => Cardinality(team) < MaxTeam
        /\ team' = res.team
        /\ last' = About(TeamAddRoute, res.status, userId)
        /\ req' = [req EXCEPT ![r] = Idle]
        /\ UNCHANGED <<users, pubs, flat, blobs, issued, registeredWith>>

\* a delete that takes the path parameter for the _id of the Team document
TeamDelById(userId) ==
    IF \E m \in team : m._id = userId
    THEN [status |-> 200, team |-> {m \in team : m._id # userId}]
    ELSE [status |-> 404, team |-> team]

\* Team.findOneAndDelete({ userId })
TeamDelResult(userId) ==
    IF FindMember(userId) = NoMember
    THEN [status |-> 404, team |-> team]
    ELSE [status |-> 200, team |-> team \ {FindMember(userId)}]

TeamDel(r, userId) ==
    LET res == TeamDelResult(userId)
    IN  /\ req[r].pc = "handler"
        /\ req[r].route = TeamDelRoute
        /\ team' = res.team
        /\ last' = About(TeamDelRoute, res.status, userId)
        /\ req' = [req EXCEPT ![r] = Idle]
        /\ UNCHANGED <<users, pubs, flat, blobs, issued, registeredWith>>

\* Team.findOne of the toggle, and the toggle of the document read
TeamAlumniFind(r, userId) ==
    /\ req[r].pc = "handler"
    /\ req[r].route = TeamAlumniRoute
    /\ IF FindMember(userId) = NoMember
       THEN /\ last' = About(TeamAlumniRoute, 404, userId)
            /\ req' = [req EXCEPT ![r] = Idle]
       ELSE /\ req' = [req EXCEPT ![r].pc = "save",
                                  ![r].member =
                           [FindMember(userId) EXCEPT !.isAlumni = ~@]]
            /\ UNCHANGED last
    /\ UNCHANGED <<users, team, pubs, flat, blobs, issued, registeredWith>>

\* member.save(): writes the flag of the document with the _id read; fails
\* when that document is gone
TeamAlumniSave(r) ==
    LET member == req[r].member
        found == \E m \in team : m._id = member._id
    IN  /\ req[r].pc = "save"
        /\ req[r].route = TeamAlumniRoute
        /\ team' = IF found
                   THEN {IF m._id = member._id
                         THEN [m EXCEPT !.isAlumni = member.isAlumni]
                         ELSE m : m \in team}
                   ELSE team
        /\ last' = About(TeamAlumniRoute, IF found THEN 200 ELSE 500,
                         member.userId)
        /\ req' = [req EXCEPT ![r] = Idle]
        /\ UNCHANGED <<users, pubs, flat, blobs, issued, registeredWith>>

(***************************************************************************)
(* Publications: POST /api/publications, GET /api/publications/my,         *)
(* PATCH /api/publications/:id.                                            *)
(***************************************************************************)
PubBody(title, authors, year) ==
    [title |-> title, authors |-> authors, year |-> year]

\* publicationSchema: an absent authors list is cast to the empty array, an
\* absent year takes the default
NewPublication(title, authors, coverImage, year, createdAt) ==
    [title |-> title,
     authors |-> IF authors = AbsentAuthors THEN <<>> ELSE authors,
     coverImage |-> coverImage,
     year |-> IF year = 0 THEN CurrentYear ELSE year,
     createdAt |-> createdAt]

\* the time of a save ({ timestamps: true }): saves happen at distinct,
\* increasing times, named by their rank
Now == Len(pubs) + 1

\* publication.authors.includes(id)
Includes(authors, id) == \E k \in DOMAIN authors : authors[k] = id

PubCreateResult(body, file) ==
    LET stored == IF file THEN blobs + 1 ELSE blobs
        coverImage == IF file THEN Url(blobs + 1) ELSE Null
    IN  IF body.title = Absent                                  \* required
        THEN [status |-> 500, pubs |-> pubs, blobs |-> stored]
        ELSE [status |-> 201,
              pubs |-> Append(pubs, NewPublication(body.title, body.authors,
                                                   coverImage, body.year, Now)),
              blobs |-> stored]

PubCreate(r, body, file) ==
    LET res == PubCreateResult(body, file)
    IN  /\ req[r].pc = "handler"
        /\ req[r].route = PubCreateRoute
        /\ file => blobs < MaxBlobs
        /\ res.status = 201 => Len(pubs) < MaxPubs
        /\ pubs' = res.pubs
        /\ blobs' = res.blobs
        /\ last' = Response(PubCreateRoute, res.status)
        /\ req' = [req EXCEPT ![r] = Idle]
        /\ UNCHANGED <<users, team, flat, issued, registeredWith>>

\* Publication.find({ authors: userId })
PubMyResult(id) == {i \in DOMAIN pubs : Includes(pubs[i].authors, id)}

PubMy(r) ==
    /\ req[r].pc = "handler"
    /\ req[r].route = PubMyRoute
    /\ last' = Response(PubMyRoute, 200)
    /\ req' = [req EXCEPT ![r] = Idle]
    /\ UNCHANGED <<users, team, pubs, flat, blobs, issued, registeredWith>>

\* Publication.findById and the author check
\* an edit open to every team member
PubPatchNoAuthorCheck(user, id) ==
    IF id = BadId THEN 500
    ELSE IF id \notin DOMAIN pubs THEN 404
    ELSE 0

PubPatchFindResult(user, id) ==
    IF id = BadId THEN 500                                    \* CastError
    ELSE IF id \notin DOMAIN pubs THEN 404
    ELSE IF ~Includes(pubs[id].authors, user) THEN 403
    ELSE 0

PubPatchFind(r, id) ==
    LET st == PubPatchFindResult(req[r].user, id)
    IN  /\ req[r].pc = "handler"
        /\ req[r].route = PubPatchRoute
        /\ IF st # 0
           THEN /\ last' = Response(PubPatchRoute, st)
                /\ req' = [req EXCEPT ![r] = Idle]
           ELSE /\ req' = [req EXCEPT ![r].pc = "findByIdAndUpdate",
                                      ![r].pub = id]
                /\ UNCHANGED last
        /\ UNCHANGED <<users, team, pubs, flat, blobs, issued, registeredWith>>

\* the upload of the cover image and Publication.findByIdAndUpdate
PubPatchResult(id, body, file) ==
    LET stored == IF file THEN blobs + 1 ELSE blobs
        updated ==
            [title |-> SetField(pubs[id].title, body.title),
             authors |-> IF body.authors = AbsentAuthors
                         THEN pubs[id].authors ELSE body.authors,
             coverImage |-> IF file THEN Url(blobs + 1) ELSE pubs[id].coverImage,
             year |-> IF body.year = 0 THEN pubs[id].year ELSE body.year,
             createdAt |-> pubs[id].createdAt]
    IN  IF id \notin DOMAIN pubs
        THEN [status |-> 404, pubs |-> pubs, blobs |-> stored]
        ELSE [status |-> 200, pubs |-> [pubs EXCEPT ![id] = updated],
              blobs |-> stored]

PubPatchUpdate(r, body, file) ==
    LET res == PubPatchResult(req[r].pub, body, file)
    IN  /\ req[r].pc = "findByIdAndUpdate"
        /\ req[r].route = PubPatchRoute
        /\ file => blobs < MaxBlobs
        /\ pubs' = res.pubs
        /\ blobs' = res.blobs
        /\ last' = Reply(PubPatchRoute, res.status, 0,
                         IF res.status = 200
                         THEN <<res.pubs[req[r].pub]>> ELSE <<>>)
        /\ req' = [req EXCEPT ![r] = Idle]
        /\ UNCHANGED <<users, team, flat, issued, registeredWith>>

(***************************************************************************)
(* The public reads of publications: GET /api/publications,                *)
(* GET /api/publications/year/:year.                                       *)
(***************************************************************************)
\* of a non-empty set of _ids of publications, the one created last
Latest(ids) ==
    CHOOSE i \in ids : \A j \in ids : pubs[j].createdAt <= pubs[i].createdAt

\* of a non-empty set of _ids of publications, the one created first
Earliest(ids) ==
    CHOOSE i \in ids : \A j \in ids : pubs[i].createdAt <= pubs[j].createdAt

\* .sort({ createdAt: -1 })
RECURSIVE SortByCreatedAtDesc(_)
SortByCreatedAtDesc(ids) ==
    IF ids = {} THEN <<>>
    ELSE <<pubs[Latest(ids)]>> \o SortByCreatedAtDesc(ids \ {Latest(ids)})

\* .sort({ createdAt: 1 })
RECURSIVE SortByCreatedAtAsc(_)
SortByCreatedAtAsc(ids) ==
    IF ids = {} THEN <<>>
    ELSE <<pubs[Earliest(ids)]>> \o SortByCreatedAtAsc(ids \ {Earliest(ids)})

\* .limit(n)
Limit(docs, n) == SubSeq(docs, 1, IF Len(docs) < n THEN Len(docs) ELSE n)

\* the list with the sort in the wrong direction
PubListOldestFirst == Limit(SortByCreatedAtAsc(DOMAIN pubs), ListLimit)

\* Publication.find().sort({ createdAt: -1 }).limit(5)
PubListResult == Limit(SortByCreatedAtDesc(DOMAIN pubs), ListLimit)

PubList ==
    /\ last' = Reply(PubListRoute, 200, 0, PubListResult)
    /\ UNCHANGED <<users, team, pubs, flat, blobs, issued, req, registeredWith>>

\* parseInt(req.params.year, 10) on the parameters of the model; NaN where
\* the text starts with no digit
NaN == -1
YearParams == {"2023", "2025", "2023abc", "abc"}
ParseInt(text) ==
    CASE text = "2023" -> 2023
      [] text = "2025" -> 2025
      [] text = "2023abc" -> 2023
      [] OTHER -> NaN

\* the documents of a set of _ids in the order of the collection
RECURSIVE InOrder(_, _)
InOrder(docs, ids) ==
    IF docs = <<>> THEN <<>>
    ELSE (IF Len(docs) \in ids THEN InOrder(SubSeq(docs, 1, Len(docs) - 1), ids)
                                    \o <<docs[Len(docs)]>>
          ELSE InOrder(SubSeq(docs, 1, Len(docs) - 1), ids))

\* a query for the publications of the year or later
PubsSinceYear(year) == InOrder(pubs, {i \in DOMAIN pubs : pubs[i].year >= year})

\* Publication.find({ year })
PubsOfYear(year) == InOrder(pubs, {i \in DOMAIN pubs : pubs[i].year = year})

\* the answer names the parameter as the request gave it
PubYear(param) ==
    /\ last' = IF ParseInt(param) = NaN
               THEN Reply(PubYearRoute, 500, param, <<>>)      \* CastError
               ELSE Reply(PubYearRoute, 200, param, PubsOfYear(ParseInt(param)))
    /\ UNCHANGED <<users, team, pubs, flat, blobs, issued, req, registeredWith>>

(***************************************************************************)
(* GET /api/team/:userId: a user and the publications that list it.        *)
(***************************************************************************)
\* the path parameters of the model: registered or not, or no ObjectId
MemberParams == UserIds \cup {BadId}

\* { teamMember, publications }
MemberPage(userId) ==
    [teamMember |-> users[userId],
     publications |-> InOrder(pubs, PubMyResult(userId))]

\* User.findById(userId), then Publication.find({ authors: userId })
MemberResult(userId) ==
    IF userId = BadId THEN [status |-> 500, body |-> <<>>]       \* CastError
    ELSE IF userId \notin DOMAIN users THEN [status |-> 404, body |-> <<>>]
    ELSE [status |-> 200, body |-> <<MemberPage(userId)>>]

Member(userId) ==
    LET res == MemberResult(userId)
    IN  /\ last' = Reply(MemberRoute, res.status, userId, res.body)
        /\ UNCHANGED <<users, team, pubs, flat, blobs, issued, req, registeredWith>>

(***************************************************************************)
(* The flat content entities: POST /api/<entity>, PATCH /api/<entity>/:id. *)
(***************************************************************************)
\* addressSchema, roleSchema, aboutSchema, technologySchema, tutorialSchema,
\* notesSchema
FlatFields(e) ==
    CASE e = "address" -> {"room", "department", "institution", "city",
                           "state", "postalCode", "country"}
      [] e = "role" -> {"roleName"}
      [] e = "about" -> {"text"}
      [] e = "technology" -> {"name", "icon", "description", "downloadLink"}
      [] e = "tutorial" -> {"name", "newIcon", "description", "tutorialLink"}
      [] e = "notes" -> {"name", "newIcon", "description", "noteLink"}

\* the field of upload.single on the create route; "" where the route takes
\* no file
FileField(e) ==
    CASE e = "technology" -> "icon"
      [] e \in {"tutorial", "notes"} -> "newIcon"
      [] OTHER -> ""

\* the upload of the icon and the save of the new document; the create
\* handlers take the icon from the file alone
FlatCreateResult(e, body, file) ==
    LET stored == IF file THEN blobs + 1 ELSE blobs
        doc == [f \in FlatFields(e) |->
                   IF f = FileField(e)
                   THEN (IF file THEN Url(blobs + 1) ELSE Null)
                   ELSE body[f]]
    IN  [status |-> 201, docs |-> Append(flat[e], doc), blobs |-> stored]

FlatCount == Cardinality({<<e, i>> \in FlatEntities \X (1..MaxFlat) :
                             i \in DOMAIN flat[e]})

FlatCreate(r, e, body, file) ==
    LET res == FlatCreateResult(e, body, file)
    IN  /\ req[r].pc = "handler"
        /\ req[r].route = FlatCreateRoute(e)
        /\ file => FileField(e) # "" /\ blobs < MaxBlobs
        /\ FlatCount < MaxFlat
        /\ flat' = [flat EXCEPT ![e] = res.docs]
        /\ blobs' = res.blobs
        /\ last' = Response(FlatCreateRoute(e), res.status)
        /\ req' = [req EXCEPT ![r] = Idle]
        /\ UNCHANGED <<users, team, pubs, issued, registeredWith>>

\* findByIdAndDelete in the place of the update: the document leaves the
\* collection and the answer is 204
FlatPatchDeletes(e, id, body) ==
    IF id \notin DOMAIN flat[e]
    THEN [status |-> 404, docs |-> flat[e]]
    ELSE [status |-> 204,
          docs |-> SubSeq(flat[e], 1, id - 1)
                      \o SubSeq(flat[e], id + 1, Len(flat[e]))]

\* findByIdAndUpdate(id, { $set: req.body })
FlatPatchResult(e, id, body) ==
    IF id = BadId THEN [status |-> 500, docs |-> flat[e]]       \* CastError
    ELSE IF id \notin DOMAIN flat[e]
    THEN [status |-> 404, docs |-> flat[e]]
    ELSE [status |-> 200,
          docs |-> [flat[e] EXCEPT ![id] =
                       [f \in FlatFields(e) |-> SetField(flat[e][id][f], body[f])]]]

FlatPatch(r, e, id, body) ==
    LET res == FlatPatchResult(e, id, body)
    IN  /\ req[r].pc = "handler"
        /\ req[r].route = FlatPatchRoute(e)
        /\ flat' = [flat EXCEPT ![e] = res.docs]
        /\ last' = Reply(FlatPatchRoute(e), res.status, id,
                         IF res.status = 200 THEN <<res.docs[id]>> ELSE <<>>)
        /\ req' = [req EXCEPT ![r] = Idle]
        /\ UNCHANGED <<users, team, pubs, blobs, issued, registeredWith>>

\* GET /api/<entity>
FlatListRoute(e) == "GET /api/" \o e

\* a list cut to the first document
FlatListFirst(e) == Limit(flat[e], 1)

\* <Model>.find().exec()
FlatListResult(e) == flat[e]

FlatList(e) ==
    /\ last' = Reply(FlatListRoute(e), 200, 0, FlatListResult(e))
    /\ UNCHANGED <<users, team, pubs, flat, blobs, issued, req, registeredWith>>

(***************************************************************************)
(* Accounts: registration, login and the self-service profile update, for  *)
(* every body over email, password and isAdmin.                            *)
(***************************************************************************)
AccountBodies ==
    {UserBody(e, p, Absent, a, Absent) :
        e \in Emails \cup {Absent}, p \in Passwords \cup {Absent},
        a \in BoolStrings \cup {Absent}}

Next ==
    \/ \E name \in Names \cup {Absent}, email \in Emails \cup {Absent},
          password \in GoodPasswords \cup {Absent}, salt \in Salts :
            Register(name, email, "PhD Student", password, TRUE, FALSE, salt)
    \/ \E email \in Emails \cup {Absent}, password \in Passwords \cup {Absent} :
            Login(email, password)
    \/ \E r \in OneReq, header \in BearerHeaders :
            Authenticate(r, PatchUsersRoute, header)
    \/ \E r \in OneReq, body \in AccountBodies, salt \in Salts :
            PatchUsers(r, body, TRUE, FALSE, salt)

Spec == Init /\ [][Next]_vars

(***************************************************************************)
(* C1.  No sequence of requests makes a user's admin flag true: a user is  *)
(* created with the flag false, and no step turns the flag of an existing  *)
(* user from false to true.                                                *)
(***************************************************************************)
C1_AdminFlagNeverSet ==
    [][\A i \in DOMAIN users' :
          users'[i].isAdmin => (i \in DOMAIN users /\ users[i].isAdmin)]_vars

(***************************************************************************)
(* C5.  The password stored for every user is a hash digest, never the     *)
(* plaintext a client submitted.                                           *)
(***************************************************************************)
C5_PasswordsAreDigests ==
    \A i \in DOMAIN users : users[i].password.kind = "bcrypt"

(***************************************************************************)
(* C6.  For a user registered with email E and password P, a login with E  *)
(* and P is answered 200 with a token that decodes to the user's stored    *)
(* _id and role, and a login with E and any other password is answered 400 *)
(* with no token.                                                          *)
(***************************************************************************)
LoginAsRegistered(i) ==
    LET E == registeredWith[i].email
        P == registeredWith[i].password
        ok == LoginResult(E, P)
    IN  /\ ok.status = 200
        /\ JwtVerify(ok.token, JWT_SECRET) =
               [ok |-> TRUE, decoded |-> [_id |-> i, role |-> users[i].role]]
        /\ \A other \in Passwords \ {P} :
               LoginResult(E, other) = [status |-> 400, token |-> NoToken]

ThePublication == PubBody("On lattices", <<1>>, 0)
NoRevision == PubBody(Absent, AbsentAuthors, 0)

NextTeam ==
    \/ Login(RootEmail, RootPassword)
    \/ \E r \in Reqs, route \in RosterRoutes \cup TeamRoutes,
          header \in BearerHeaders :
            Authenticate(r, route, header)
    \/ \E r \in Reqs : CheckTeamMembership(r)
    \/ \E r \in Reqs, userId \in UserIds : TeamAdd(r, userId)
    \/ \E r \in Reqs, userId \in UserIds : TeamDel(r, userId)
    \/ \E r \in Reqs, userId \in UserIds : TeamAlumniFind(r, userId)
    \/ \E r \in Reqs : TeamAlumniSave(r)
    \/ \E r \in Reqs : Len(pubs) < FewPubs /\ PubCreate(r, ThePublication, FALSE)
    \/ \E r \in Reqs : PubMy(r)
    \/ \E r \in Reqs, id \in 1..MaxPubs : PubPatchFind(r, id)
    \/ \E r \in Reqs : PubPatchUpdate(r, NoRevision, FALSE)

SpecTeam == Init /\ [][NextTeam]_vars

\* the step of slot r is the one store operation of checkTeamMembership
GateStep(r) == req[r].pc = "checkTeamMembership" /\ req'[r] # req[r]

\* the step of slot r is the store operation that ends its request on route
HandlerStep(r, route) ==
    req[r].route = route /\ req[r].pc = "handler" /\ req'[r] = Idle

HasRecord(t, userId) == \E m \in t : m.userId = userId

(***************************************************************************)
(* C3.  checkTeamMembership answers 403, and ends the request, when the    *)
(* authenticated user has no Team document; when the user has one it sends *)
(* no response and hands the request to the route's handler, whether the   *)
(* document's isAlumni is true or false.  In both cases it changes no      *)
(* collection.                                                             *)
(***************************************************************************)
C3_GateByRecord ==
    [][\A r \in Reqs : GateStep(r) =>
          /\ IF HasRecord(team, req[r].user)
             THEN req'[r] = [req[r] EXCEPT !.pc = "handler"] /\ last' = last
             ELSE req'[r] = Idle /\ last' = Response("checkTeamMembership", 403)
          /\ UNCHANGED <<users, team, pubs, flat>>]_vars

\* a request of a user whose Team document is marked alumni is past the gate
C3_Witness ==
    \E r \in Reqs :
        /\ req[r].route \in TeamRoutes
        /\ req[r].pc = "handler"
        /\ FindMember(req[r].user) # NoMember
        /\ FindMember(req[r].user).isAlumni

(***************************************************************************)
(* C9.  Whatever POST /api/team requests have run, one after another or    *)
(* interleaved, no two Team documents carry the same userId; and a         *)
(* POST /api/team naming a user who has a Team document is answered 500    *)
(* and leaves the collection as it was.                                    *)
(***************************************************************************)
C9_OneRecordPerUser ==
    [][/\ \A m1 \in team', m2 \in team' : m1.userId = m2.userId => m1 = m2
       /\ \A r \in Reqs :
             HandlerStep(r, TeamAddRoute) /\ HasRecord(team, last'.about) =>
                 last'.status = 500 /\ team' = team]_vars

\* an add was answered 500 for a user who has a Team document
C9_Witness ==
    /\ last.by = TeamAddRoute
    /\ last.status = 500
    /\ HasRecord(team, last.about)

(***************************************************************************)
(* C10.  A DELETE /api/team/:U answered 200 leaves no Team document of U;  *)
(* a Team document of a user who had none appears only in the step of a    *)
(* POST /api/team of an administrator answered 201 for that user; and a    *)
(* request on POST /api/publications, GET /api/publications/my or          *)
(* PATCH /api/publications/:id that reaches checkTeamMembership while its  *)
(* user has no Team document is answered 403 and goes no further.  So from *)
(* the removal until the next add, every such request of U that starts is  *)
(* answered 403.                                                           *)
(***************************************************************************)
C10_RemovalRevokes ==
    [][/\ \A r \in Reqs :
             HandlerStep(r, TeamDelRoute) /\ last'.status = 200 =>
                 ~HasRecord(team', last'.about)
       /\ \A u \in UserIds :
             ~HasRecord(team, u) /\ HasRecord(team', u) =>
                 /\ last' = About(TeamAddRoute, 201, u)
                 /\ \E r \in Reqs : /\ HandlerStep(r, TeamAddRoute)
                                    /\ users[req[r].user].isAdmin
       /\ \A r \in Reqs :
             /\ req[r].route \in TeamRoutes /\ req[r].pc = "handler" =>
                    req'[r].route = req[r].route \/ req'[r] = Idle
             /\ req[r].route \in TeamRoutes /\ GateStep(r)
                   /\ ~HasRecord(team, req[r].user) =>
                    /\ last' = Response("checkTeamMembership", 403)
                    /\ req'[r] = Idle
                    /\ pubs' = pubs]_vars

\* the user who created the publication, so had a Team document then, has
\* none now and was just turned away at the gate
C10_Witness ==
    /\ Len(pubs) > 0
    /\ ~HasRecord(team, 1)
    /\ last = Response("checkTeamMembership", 403)

(***************************************************************************)
(* Tokens and authenticate, one request at a time: a second user           *)
(* registers, both log in, clients send every header of ClientHeaders, the *)
(* users change role and password, the administrator adds and removes      *)
(* team members.                                                           *)
(***************************************************************************)
MemberEmail == "b@x.com"
MemberPassword == "hunter2"
RoleChange == UserBody(Absent, Absent, "Researcher", Absent, Absent)
PasswordChange == UserBody(Absent, "secret123", Absent, Absent, Absent)

NextAuth ==
    \/ Register("Ann", MemberEmail, "PhD Student", MemberPassword, TRUE, FALSE, 1)
    \/ \E password \in {RootPassword, MemberPassword} :
            Login(RootEmail, password) \/ Login(MemberEmail, password)
    \/ \E r \in OneReq, header \in ClientHeaders :
            Authenticate(r, UserIdRoute, header)
    \/ \E r \in OneReq, route \in {PatchUsersRoute, TeamAddRoute, TeamDelRoute},
          header \in BearerHeaders \cup {Bearer(StaleToken)} :
            Authenticate(r, route, header)
    \/ \E r \in OneReq, body \in {RoleChange, PasswordChange} :
            PatchUsers(r, body, TRUE, FALSE, 1)
    \/ \E r \in OneReq, userId \in UserIds : TeamAdd(r, userId)
    \/ \E r \in OneReq, userId \in UserIds : TeamDel(r, userId)

SpecAuth == Init /\ [][NextAuth]_vars

\* the tokens the service has signed with its secret
ServiceSigned == issued \cup {StaleToken}

\* the step attaches a user to the request of slot r and passes it on
Attaches(r) == req[r] = Idle /\ req'[r] # Idle

(***************************************************************************)
(* C2.  For every header a client can send, authenticate answers 401 when  *)
(* the request carries no Authorization value (no header, or an empty      *)
(* one), 400 when the token segment is not a token signed by the service,  *)
(* 403 when it is one but no stored user has the _id in it, and otherwise  *)
(* attaches the stored user with that _id and calls the next layer.  When  *)
(* it passes a request on it sends no response itself, and it changes no   *)
(* collection either way.                                                  *)
(***************************************************************************)
C2_AuthenticateCases ==
    /\ [](\A h \in ClientHeaders :
            LET a == AuthenticateResult(h)
                t == SecondSegment(h)
            IN  IF h = NoHeader \/ h = EmptyHeader THEN a = [status |-> 401, id |-> 0]
                ELSE IF t \notin ServiceSigned THEN a = [status |-> 400, id |-> 0]
                ELSE IF t.sigOf._id \notin DOMAIN users
                THEN a = [status |-> 403, id |-> 0]
                ELSE a = [status |-> 0, id |-> t.sigOf._id])
    /\ [][\A r \in OneReq :
            /\ Attaches(r) =>
                  /\ req'[r].user \in DOMAIN users
                  /\ req'[r].pc = "handler"
                  /\ last' = last
                  /\ UNCHANGED <<users, team, pubs, flat, blobs, issued>>
            /\ last'.by = "authenticate" /\ last' # last =>
                  /\ last'.status \in {400, 401, 403}
                  /\ UNCHANGED <<users, team, pubs, flat, blobs, issued, req>>]_vars

\* a request with the token of a removed user was answered 403, and the
\* next request was passed on to its handler with a user attached
C2_Witness ==
    /\ last = Response("authenticate", 403)
    /\ \E r \in OneReq : req[r].pc = "handler" /\ req[r].user \in DOMAIN users

C8_TokenStaysValid ==
    \A t \in issued :
        AuthenticateResult(Bearer(t)) = [status |-> 0, id |-> t.sigOf._id]

\* the only token issued is one of the second user, who has since changed
\* role and password; the request made with it was answered 200
C8_Witness ==
    /\ \E t \in issued :
          /\ issued = {t}
          /\ t.payload._id = MaxUsers
          /\ users[MaxUsers].role # t.payload.role
          /\ ~registeredWith[MaxUsers].intact
    /\ last = Response(UserIdRoute, 200)

(***************************************************************************)
(* The admin-only writes, one request at a time: a second user registers,  *)
(* both log in, either sends requests on the roster routes and on the      *)
(* create and update routes of the six flat entities; the second user may  *)
(* obtain the admin flag through PATCH /api/users.                         *)
(***************************************************************************)
Promotion == UserBody(Absent, Absent, Absent, "true", Absent)
FlatBody(e, v) == [f \in FlatFields(e) |-> v]

NextAdmin ==
    \/ Register("Ann", MemberEmail, "PhD Student", MemberPassword, TRUE, FALSE, 1)
    \/ Login(RootEmail, RootPassword) \/ Login(MemberEmail, MemberPassword)
    \/ \E r \in OneReq, route \in AdminRoutes \cup {PatchUsersRoute},
          header \in BearerHeaders :
            Authenticate(r, route, header)
    \/ \E r \in OneReq : PatchUsers(r, Promotion, TRUE, FALSE, 1)
    \/ \E r \in OneReq : TeamAdd(r, MaxUsers)
    \/ \E r \in OneReq : TeamDel(r, MaxUsers)
    \/ \E r \in OneReq : TeamAlumniFind(r, MaxUsers)
    \/ \E r \in OneReq : TeamAlumniSave(r)
    \/ \E r \in OneReq, e \in FlatEntities, file \in BOOLEAN :
            FlatCount < FewFlat /\ FlatCreate(r, e, FlatBody(e, "v1"), file)
    \/ \E r \in OneReq, e \in FlatEntities, id \in 1..FewFlat :
            FlatPatch(r, e, id, FlatBody(e, "v2"))

SpecAdmin == Init /\ [][NextAdmin]_vars

\* the routes the claim names
C4_Routes ==
    {"POST /api/team", "DELETE /api/team/:userId", "PATCH /api/team/:userId/alumni",
     "POST /api/address", "PATCH /api/address/:id",
     "POST /api/role", "PATCH /api/role/:id",
     "POST /api/about", "PATCH /api/about/:id",
     "POST /api/technology", "PATCH /api/technology/:id",
     "POST /api/tutorial", "PATCH /api/tutorial/:id",
     "POST /api/notes", "PATCH /api/notes/:id"}

(***************************************************************************)
(* C4.  On each roster route and each create or update route of Address,   *)
(* Role, AboutText, Technology, Tutorial and Notes, a request              *)
(* authenticated as a user whose stored isAdmin is false is answered 403   *)
(* by the route before any store operation of the handler, and the step    *)
(* that answers it changes no collection.  The Team collection and the six *)
(* flat collections change only in a step of a request on one of these     *)
(* routes whose user has isAdmin true.                                     *)
(***************************************************************************)
C4_AdminOnlyWrites ==
    /\ [](\A id \in DOMAIN users, route \in C4_Routes :
            ~users[id].isAdmin => AfterAuthenticate(route, id) = Response(route, 403))
    /\ [](\A r \in OneReq : req[r].route \in C4_Routes => users[req[r].user].isAdmin)
    /\ [][/\ last' # last /\ last'.by \in C4_Routes /\ last'.status = 403 =>
                UNCHANGED <<users, team, pubs, flat, blobs, req>>
          /\ team' # team \/ flat' # flat =>
                \E r \in OneReq : /\ req[r].route \in C4_Routes
                                  /\ users[req[r].user].isAdmin
                                  /\ req'[r] = Idle
                                  /\ last'.by = req[r].route]_vars

\* a flat document exists, written by an administrator, and the last
\* request, of a user without the admin flag, was answered 403 by the
\* update route of that entity
C4_Witness ==
    /\ \E i \in DOMAIN users : ~users[i].isAdmin /\ \E t \in issued : t.payload._id = i
    /\ \E e \in FlatEntities :
          /\ Len(flat[e]) > 0
          /\ last = Response(FlatPatchRoute(e), 403)

(***************************************************************************)
(* Publications, one request at a time: the administrator logs in, adds    *)
(* itself to the team, creates publications with every authors list of     *)
(* PubCreateBodies and edits them.                                         *)
(***************************************************************************)
PubCreateBodies ==
    {PubBody(title, authors, 0) :
        title \in {"On lattices", Absent},
        authors \in {AbsentAuthors, <<>>, <<1>>, <<MaxUsers>>}}

PubPatchBodies ==
    {PubBody("On lattices, revised", AbsentAuthors, 0),
     PubBody(Absent, <<MaxUsers>>, 0),
     PubBody(Absent, AbsentAuthors, 2023),
     PubBody(Absent, AbsentAuthors, 0)}

NextPubs ==
    \/ Login(RootEmail, RootPassword)
    \/ \E r \in OneReq, route \in {TeamAddRoute, PubCreateRoute, PubPatchRoute},
          header \in BearerHeaders :
            Authenticate(r, route, header)
    \/ \E r \in OneReq : CheckTeamMembership(r)
    \/ \E r \in OneReq : TeamAdd(r, 1)
    \/ \E r \in OneReq, body \in PubCreateBodies, file \in BOOLEAN :
            Len(pubs) < SomePubs /\ PubCreate(r, body, file)
    \/ \E r \in OneReq, id \in 1..SomePubs : PubPatchFind(r, id)
    \/ \E r \in OneReq, body \in PubPatchBodies, file \in BOOLEAN :
            PubPatchUpdate(r, body, file)
    \/ \E userId \in MemberParams : Member(userId)

SpecPubs == Init /\ [][NextPubs]_vars

(***************************************************************************)
(* C11.  Every Publication document in the store has at least one author,  *)
(* and each of its authors is a registered user.                           *)
(***************************************************************************)
C11_PublicationsHaveAuthors ==
    \A i \in DOMAIN pubs :
        /\ Len(pubs[i].authors) >= 1
        /\ \A k \in DOMAIN pubs[i].authors : pubs[i].authors[k] \in DOMAIN users

\* the step of slot r is the findByIdAndUpdate that ends its edit
PubPatchUpdateStep(r) ==
    /\ req[r].route = PubPatchRoute
    /\ req[r].pc = "findByIdAndUpdate"
    /\ req'[r] = Idle

(***************************************************************************)
(* C12.  PATCH /api/publications/:id of a team member, for a publication   *)
(* in the store: when the requester's _id is not in the stored authors the *)
(* answer is 403 and the step that sends it changes no publication; when   *)
(* it is, the edit goes on, each field the body carries is set to the      *)
(* submitted value, coverImage to the URL of the uploaded file when there  *)
(* is one, the other publications stay as they were, and the answer is 200 *)
(* with the updated document.                                              *)
(***************************************************************************)
C12_EditByAuthorsOnly ==
    /\ [](\A user \in DOMAIN users, id \in DOMAIN pubs :
            PubPatchFindResult(user, id) =
                IF \E k \in DOMAIN pubs[id].authors : pubs[id].authors[k] = user
                THEN 0 ELSE 403)
    /\ [](\A r \in OneReq : req[r].pc = "findByIdAndUpdate" =>
            \A body \in PubPatchBodies, file \in BOOLEAN :
                LET id == req[r].pub
                    res == PubPatchResult(id, body, file)
                    doc == res.pubs[id]
                IN  /\ res.status = 200
                    /\ body.title # Absent => doc.title = body.title
                    /\ body.authors # AbsentAuthors => doc.authors = body.authors
                    /\ body.year # 0 => doc.year = body.year
                    /\ file => doc.coverImage = Url(blobs + 1)
                    /\ \A j \in DOMAIN pubs \ {id} : res.pubs[j] = pubs[j]
                    /\ DOMAIN res.pubs = DOMAIN pubs)
    /\ [][/\ last' # last /\ last' = Response(PubPatchRoute, 403) => pubs' = pubs
          /\ \A r \in OneReq : PubPatchUpdateStep(r) =>
                /\ last'.status = 200
                /\ last'.body = <<pubs'[req[r].pub]>>
          /\ pubs' # pubs /\ Len(pubs') = Len(pubs) =>
                \E r \in OneReq : PubPatchUpdateStep(r)]_vars

\* an edit by an author was answered 200 with a document that carries the
\* submitted authors and the URL of the uploaded cover image
C12_Witness ==
    /\ last.by = PubPatchRoute
    /\ last.status = 200
    /\ last.body # <<>>
    /\ last.body[1].authors = <<MaxUsers>>
    /\ blobs = 1
    /\ last.body[1].coverImage = Url(1)
    /\ last.body[1] \in {pubs[i] : i \in DOMAIN pubs}

(***************************************************************************)
(* Emails, with requests interleaving: users register, log in and change   *)
(* their email through PATCH /api/users, MaxReq updates in flight at a     *)
(* time.                                                                   *)
(***************************************************************************)
MoreEmails == Emails \cup {"c@x.com"}
EmailChange(email) == UserBody(email, Absent, Absent, Absent, Absent)

NextEmail ==
    \/ \E email \in MoreEmails :
            Register("Ann", email, "PhD Student", MemberPassword, TRUE, FALSE, 1)
    \/ \E email \in MoreEmails, password \in {RootPassword, MemberPassword} :
            Login(email, password)
    \/ \E r \in Reqs, header \in BearerHeaders :
            Authenticate(r, PatchUsersRoute, header)
    \/ \E r \in Reqs, email \in MoreEmails :
            PatchUsers(r, EmailChange(email), TRUE, FALSE, 1)

SpecEmail == Init /\ [][NextEmail]_vars

(***************************************************************************)
(* C13.  No two User documents have the same email, whatever registrations *)
(* and email changes have run, interleaved or not; a registration with the *)
(* email of an existing user is answered 500 and adds no user, and so is   *)
(* an update that would give a user the email of another one.              *)
(***************************************************************************)
C13_EmailsUnique ==
    /\ \A i \in DOMAIN users, j \in DOMAIN users :
          users[i].email = users[j].email => i = j
    /\ \A i \in DOMAIN users, file \in BOOLEAN, salt \in Salts :
          LET res == RegisterResult("Ann", users[i].email, "PhD Student",
                                    MemberPassword, TRUE, file, salt)
          IN  res.status = 500 /\ res.users = users
    /\ \A i \in DOMAIN users, j \in DOMAIN users, salt \in Salts :
          LET res == PatchUsersResult(j, EmailChange(users[i].email),
                                      TRUE, FALSE, salt)
          IN  i # j => res.status = 500 /\ res.users = users

\* a user whose email is no longer the one of the registration exists, and
\* the last email change, to the email of another user, was answered 500
C13_Witness ==
    /\ Len(users) = MaxUsers
    /\ \E i \in DOMAIN users : users[i].email # registeredWith[i].email
    /\ last = Response(PatchUsersRoute, 500)

(***************************************************************************)
(* The lists of publications, one request at a time: the administrator     *)
(* logs in, adds itself to the team, creates up to MaxPubs publications of *)
(* different years, and anyone reads the lists.                            *)
(***************************************************************************)
YearBodies ==
    {PubBody("On lattices", <<1>>, year) : year \in {0, 2023, 2024}}

NextList ==
    \/ Login(RootEmail, RootPassword)
    \/ \E r \in OneReq, route \in {TeamAddRoute, PubCreateRoute},
          header \in BearerHeaders :
            Authenticate(r, route, header)
    \/ \E r \in OneReq : CheckTeamMembership(r)
    \/ \E r \in OneReq : TeamAdd(r, 1)
    \/ \E r \in OneReq, body \in YearBodies : PubCreate(r, body, FALSE)
    \/ PubList
    \/ \E param \in YearParams : PubYear(param)

SpecList == Init /\ [][NextList]_vars

\* the documents of a response body, as a set
Docs(body) == {body[k] : k \in DOMAIN body}

(***************************************************************************)
(* C14.  The answer of GET /api/publications holds min(5, n) of the n      *)
(* publications in the store, no one twice, latest createdAt first, and    *)
(* every publication it leaves out was created no later than each one it   *)
(* holds.                                                                  *)
(***************************************************************************)
C14_RecentFive ==
    last.by = PubListRoute =>
        LET body == last.body
            n == Len(pubs)
        IN  /\ last.status = 200
            /\ Len(body) = IF n < 5 THEN n ELSE 5
            /\ Docs(body) \subseteq Docs(pubs)
            /\ \A k \in 1..(Len(body) - 1) :
                  body[k].createdAt > body[k + 1].createdAt
            /\ \A i \in DOMAIN pubs : pubs[i] \notin Docs(body) =>
                  \A k \in DOMAIN body : pubs[i].createdAt <= body[k].createdAt

\* six or more publications exist and the list was answered with five
C14_Witness ==
    /\ last.by = PubListRoute
    /\ Len(pubs) = MaxPubs
    /\ Len(last.body) = 5
    /\ last.body[1] = pubs[MaxPubs]

(***************************************************************************)
(* C15.  For an integer Y, GET /api/publications/year/Y is answered 200    *)
(* with every publication whose year is Y, each once, and no publication   *)
(* of another year.                                                        *)
(***************************************************************************)
C15_ByYear ==
    \A Y \in {2023, 2024, 2025} :
        last.by = PubYearRoute /\ last.about = ToString(Y) =>
            /\ last.status = 200
            /\ Docs(last.body) = {pubs[i] : i \in {j \in DOMAIN pubs : pubs[j].year = Y}}
            /\ Len(last.body) = Cardinality({j \in DOMAIN pubs : pubs[j].year = Y})

\* the list of 2023 was answered with some publications while publications
\* of an earlier-created default year and of 2024 exist
C15_Witness ==
    /\ last.by = PubYearRoute
    /\ last.about = "2023"
    /\ Len(last.body) >= 2
    /\ \E i \in DOMAIN pubs : pubs[i].year = 2024
    /\ \E i \in DOMAIN pubs : pubs[i].year = CurrentYear

(***************************************************************************)
(* C16.  GET /api/team/:U for a user U with a Team document is answered    *)
(* 200 with U's user document and exactly the publications whose authors   *)
(* hold U; for every path parameter that is the _id of no user the answer  *)
(* is 404.                                                                 *)
(***************************************************************************)
C16_MemberPage ==
    last.by = MemberRoute =>
        LET U == last.about
        IN  /\ U \in DOMAIN users /\ HasRecord(team, U) =>
                /\ last.status = 200
                /\ Len(last.body) = 1
                /\ last.body[1].teamMember = users[U]
                /\ Docs(last.body[1].publications) =
                       {pubs[i] : i \in {j \in DOMAIN pubs : Includes(pubs[j].authors, U)}}
                /\ Len(last.body[1].publications) =
                       Cardinality({j \in DOMAIN pubs : Includes(pubs[j].authors, U)})
            /\ U \notin DOMAIN users => last.status = 404

(***************************************************************************)
(* The flat content, one request at a time: the administrator logs in,     *)
(* creates up to MaxFlat documents of the six entities and updates them    *)
(* by _id with bodies that hold one field, all fields but that one, every  *)
(* field or none.                                                          *)
(***************************************************************************)
\* the field a one-field body submits
KeyField(e) ==
    CASE e = "address" -> "room"
      [] e = "role" -> "roleName"
      [] e = "about" -> "text"
      [] OTHER -> "name"

\* a body with the fields of the set given and no other
FlatPartial(e, submitted, v) ==
    [f \in FlatFields(e) |-> IF f \in submitted THEN v ELSE Absent]

FlatBodies(e) ==
    {FlatPartial(e, submitted, "v2") :
        submitted \in {{}, {KeyField(e)}, FlatFields(e) \ {KeyField(e)},
                       FlatFields(e)}}

\* the path parameters: the _id of a document or of none, or no ObjectId
FlatParams == 1..(MaxFlat + 1) \cup {BadId}

NextFlat ==
    \/ Login(RootEmail, RootPassword)
    \/ \E r \in OneReq, route \in FlatCreateRoutes \cup FlatPatchRoutes,
          header \in BearerHeaders :
            Authenticate(r, route, header)
    \/ \E r \in OneReq, e \in FlatEntities, file \in BOOLEAN :
            FlatCreate(r, e, FlatBody(e, "v1"), file)
    \/ \E r \in OneReq, e \in FlatEntities, id \in FlatParams :
          \E body \in FlatBodies(e) : FlatPatch(r, e, id, body)
    \/ \E e \in FlatEntities : FlatList(e)

SpecFlat == Init /\ [][NextFlat]_vars

(***************************************************************************)
(* C17.  On every flat entity, the update by _id of an existing document   *)
(* is answered 200, gives each submitted field its submitted value, keeps  *)
(* every other field of the document and every other document, and the     *)
(* answer holds the document as stored; for every path parameter that is   *)
(* the _id of no document the answer is 404 and the collection is          *)
(* unchanged.  The first conjunct is about the request that has reached   *)
(* the handler, the second about the answer it was given.                  *)
(***************************************************************************)
C17_UpdateById ==
    /\ \A r \in OneReq, e \in FlatEntities, id \in FlatParams :
        req[r].pc = "handler" /\ req[r].route = FlatPatchRoute(e) =>
          \A body \in FlatBodies(e) :
          LET res == FlatPatchResult(e, id, body)
          IN  /\ id \in DOMAIN flat[e] =>
                    /\ res.status = 200
                    /\ DOMAIN res.docs = DOMAIN flat[e]
                    /\ \A f \in FlatFields(e) :
                          res.docs[id][f] = IF body[f] # Absent THEN body[f]
                                            ELSE flat[e][id][f]
                    /\ \A j \in DOMAIN flat[e] \ {id} : res.docs[j] = flat[e][j]
              /\ id \notin DOMAIN flat[e] =>
                    res.status = 404 /\ res.docs = flat[e]
    /\ \A e \in FlatEntities :
          last.by = FlatPatchRoute(e) /\ last.status = 200 =>
              last.body = <<flat[e][last.about]>>

(***************************************************************************)
(* Every collection, one request at a time: a second user registers, the   *)
(* administrator logs in, changes its profile, adds itself to the team and *)
(* removes itself, creates and edits a publication, and creates and        *)
(* updates flat documents.                                                 *)
(***************************************************************************)
NextStore ==
    \/ Register("Ann", MemberEmail, "PhD Student", MemberPassword, TRUE, FALSE, 1)
    \/ Login(RootEmail, RootPassword)
    \/ \E r \in OneReq,
          route \in {PatchUsersRoute, TeamAddRoute, TeamDelRoute, PubCreateRoute,
                     PubPatchRoute} \cup FlatCreateRoutes \cup FlatPatchRoutes,
          header \in BearerHeaders :
            Authenticate(r, route, header)
    \/ \E r \in OneReq : CheckTeamMembership(r)
    \/ \E r \in OneReq : PatchUsers(r, RoleChange, TRUE, FALSE, 1)
    \/ \E r \in OneReq : TeamAdd(r, 1)
    \/ \E r \in OneReq : TeamDel(r, 1)
    \/ \E r \in OneReq :
            Len(pubs) < FewPubs /\ PubCreate(r, ThePublication, FALSE)
    \/ \E r \in OneReq, id \in 1..FewPubs : PubPatchFind(r, id)
    \/ \E r \in OneReq, body \in PubPatchBodies : PubPatchUpdate(r, body, FALSE)
    \/ \E r \in OneReq, e \in FlatEntities :
            FlatCount < FewFlat /\ FlatCreate(r, e, FlatBody(e, "v1"), FALSE)
    \/ \E r \in OneReq, e \in FlatEntities, id \in 1..FewFlat :
            FlatPatch(r, e, id, FlatBody(e, "v2"))

SpecStore == Init /\ [][NextStore]_vars

(***************************************************************************)
(* C18.  No step removes a User, a Publication or a flat document: every   *)
(* _id of these collections is the _id of a document after the step too.   *)
(* The Team collection loses a document only in a step of                  *)
(* DELETE /api/team/:userId.                                               *)
(***************************************************************************)
C18_OnlyTeamRemoved ==
    [][/\ DOMAIN users \subseteq DOMAIN users'
       /\ DOMAIN pubs \subseteq DOMAIN pubs'
       /\ \A e \in FlatEntities : DOMAIN flat[e] \subseteq DOMAIN flat'[e]
       /\ ~({m._id : m \in team} \subseteq {m._id : m \in team'}) =>
              last' = About(TeamDelRoute, 200, last'.about)]_vars

\* the Team document was removed while two users, a publication and a flat
\* document, each written before, are in the store
C18_Witness ==
    /\ last.by = TeamDelRoute /\ last.status = 200
    /\ team = {}
    /\ Len(users) = MaxUsers
    /\ Len(pubs) >= 1
    /\ \E e \in FlatEntities : Len(flat[e]) >= 1 /\ flat[e][1] = FlatBody(e, "v2")

(***************************************************************************)
(* Failures of the document store and of the object storage.  An await     *)
(* that rejects takes the request to the catch of the function it is in;   *)
(* the catch answers and the request ends there, with no second attempt.   *)
(***************************************************************************)
\* the source named by the answer to a request whose store operation failed
Failure(source) == "store failure in " \o source

FailureSources ==
    {Failure(source) :
        source \in {"authenticate", "checkTeamMembership", RegisterRoute,
                    LoginRoute, PubListRoute, PubYearRoute, MemberRoute}
                   \cup TeamRoutes \cup AdminRoutes \cup {PatchUsersRoute}}

\* authenticate when User.findOne rejects: the catch of the token check
\* answers.  failed is whether the lookup was reached.
AuthenticateOnStoreFailure(header) ==
    IF Falsy(header) THEN [status |-> 401, failed |-> FALSE]
    ELSE LET v == JwtVerify(SecondSegment(header), JWT_SECRET)
         IN  IF ~v.ok THEN [status |-> 400, failed |-> FALSE]
             ELSE [status |-> 400, failed |-> TRUE]       \* 'Invalid token'

AuthenticateFault(r, header) ==
    LET a == AuthenticateOnStoreFailure(header)
    IN  /\ req[r] = Idle
        /\ a.failed
        /\ last' = Response(Failure("authenticate"), a.status)
        /\ UNCHANGED <<users, team, pubs, flat, blobs, issued, req, registeredWith>>

\* checkTeamMembership when Team.findOne rejects
CheckTeamMembershipOnStoreFailure == 500

CheckTeamMembershipFault(r) ==
    /\ req[r].pc = "checkTeamMembership"
    /\ last' = Response(Failure("checkTeamMembership"),
                        CheckTeamMembershipOnStoreFailure)
    /\ req' = [req EXCEPT ![r] = Idle]
    /\ UNCHANGED <<users, team, pubs, flat, blobs, issued, registeredWith>>

\* the catch of every route handler
HandlerOnStoreFailure == 500

\* the positions at which a handler uploads the file before its write
UploadsAt(route, pc) ==
    \/ /\ pc = "handler"
       /\ route \in {PatchUsersRoute, PubCreateRoute}
                     \cup {FlatCreateRoute(e) : e \in {f \in FlatEntities : FileField(f) # ""}}
    \/ pc = "findByIdAndUpdate" /\ route = PubPatchRoute

\* a store operation of the handler rejects; uploaded is whether the upload
\* of the request's file was done before it
HandlerFault(r, uploaded) ==
    /\ req[r].pc \in {"handler", "save", "findByIdAndUpdate"}
    /\ uploaded => UploadsAt(req[r].route, req[r].pc) /\ blobs < MaxBlobs
    /\ blobs' = IF uploaded THEN blobs + 1 ELSE blobs
    /\ last' = Response(Failure(req[r].route), HandlerOnStoreFailure)
    /\ req' = [req EXCEPT ![r] = Idle]
    /\ UNCHANGED <<users, team, pubs, flat, issued, registeredWith>>

\* the same on a route declared without a gate
PublicFault(route) ==
    /\ last' = Response(Failure(route), HandlerOnStoreFailure)
    /\ UNCHANGED <<users, team, pubs, flat, blobs, issued, req, registeredWith>>

(***************************************************************************)
(* Publications with failures: the requests of the administrator on the    *)
(* team and publication routes, each of whose store operations may fail.   *)
(***************************************************************************)
NextFault ==
    \/ Login(RootEmail, RootPassword)
    \/ \E r \in OneReq, route \in {TeamAddRoute, PubCreateRoute, PubPatchRoute},
          header \in BearerHeaders :
            Authenticate(r, route, header)
    \/ \E r \in OneReq : CheckTeamMembership(r)
    \/ \E r \in OneReq : TeamAdd(r, 1)
    \/ \E r \in OneReq, file \in BOOLEAN :
            Len(pubs) < FewPubs /\ PubCreate(r, ThePublication, file)
    \/ \E r \in OneReq, id \in 1..FewPubs : PubPatchFind(r, id)
    \/ \E r \in OneReq, body \in PubPatchBodies, file \in BOOLEAN :
            PubPatchUpdate(r, body, file)
    \/ \E r \in OneReq, header \in BearerHeaders : AuthenticateFault(r, header)
    \/ \E r \in OneReq : CheckTeamMembershipFault(r)
    \/ \E r \in OneReq, uploaded \in BOOLEAN : HandlerFault(r, uploaded)
    \/ \E route \in {LoginRoute, PubListRoute} : PublicFault(route)

SpecFault == Init /\ [][NextFault]_vars

(***************************************************************************)
(* C19.  The answer to a request one of whose store or object-storage      *)
(* operations failed, in authenticate, in checkTeamMembership or in the    *)
(* handler, has status 500.                                                *)
(***************************************************************************)
C19_FailureIs500 ==
    last.by \in FailureSources => last.status = 500

(***************************************************************************)
(* The same requests under fairness.  Every awaited operation settles, by  *)
(* its result or by the timeout of the driver, and the event loop then     *)
(* runs the continuation of the request: a request in flight takes its     *)
(* next step.                                                              *)
(***************************************************************************)
\* a request arrives on a route with gates; one that creates a publication
\* only while the store of the model has room for it
Arrive(r) ==
    \E route \in {TeamAddRoute, PubCreateRoute, PubPatchRoute},
       header \in BearerHeaders :
        /\ route = PubCreateRoute => Len(pubs) < FewPubs
        /\ Authenticate(r, route, header)

\* the next step of the request in flight in slot r
Step(r) ==
    \/ CheckTeamMembership(r)
    \/ TeamAdd(r, 1)
    \/ \E file \in BOOLEAN : PubCreate(r, ThePublication, file)
    \/ \E id \in 1..FewPubs : PubPatchFind(r, id)
    \/ \E body \in PubPatchBodies, file \in BOOLEAN : PubPatchUpdate(r, body, file)
    \/ CheckTeamMembershipFault(r)
    \/ \E uploaded \in BOOLEAN : HandlerFault(r, uploaded)

NextLive ==
    \/ Login(RootEmail, RootPassword)
    \/ \E r \in OneReq : Arrive(r)
    \/ \E r \in OneReq, header \in BearerHeaders : AuthenticateFault(r, header)
    \/ \E r \in OneReq : Step(r)

SpecLive == Init /\ [][NextLive]_vars /\ \A r \in OneReq : WF_vars(Step(r))

\* the status codes of the answers
StatusCodes == {200, 201, 400, 401, 403, 404, 500}

\* who may answer a request in flight on the route
Answerers(route) ==
    {route, "checkTeamMembership", Failure(route), Failure("checkTeamMembership")}

(***************************************************************************)
(* C20.  A request that has passed authenticate is eventually answered,    *)
(* and exactly once: the step that ends it sends one answer with a status  *)
(* code, by its gate or its handler, and no step of a request that stays   *)
(* in flight sends an answer.  A request turned away on arrival is         *)
(* answered in that step, with a status code.                              *)
(***************************************************************************)
C20_ExactlyOneResponse ==
    /\ \A r \in OneReq : (req[r] # Idle) ~> (req[r] = Idle)
    /\ [][\A r \in OneReq :
            /\ req[r] # Idle /\ req'[r] = Idle =>
                    last'.status \in StatusCodes /\ last'.by \in Answerers(req[r].route)
            /\ req'[r] # req[r] /\ req'[r] # Idle => last' = last
            /\ req[r] = Idle /\ req'[r] = Idle /\ last' # last =>
                    last'.status \in StatusCodes]_vars

\* an edit has gone through authenticate, checkTeamMembership, the read and
\* the update, and was answered 200
C20_Witness ==
    /\ last.by = PubPatchRoute
    /\ last.status = 200
    /\ \A r \in OneReq : req[r] = Idle

(***************************************************************************)
(* The gates, one request at a time: a second user registers, both log in  *)
(* and send requests, with and without a usable token, on routes with the  *)
(* team gate, the admin check and the author check.                        *)
(***************************************************************************)
GateHeaders ==
    BearerHeaders \cup {Bearer(StaleToken), Bearer(TextSeg("garbage")),
                        HeaderOf(<<TextSeg("Bearer")>>)}

GateRoutes ==
    {TeamAddRoute, PubCreateRoute, PubMyRoute, PubPatchRoute,
     FlatCreateRoute("address")}

NextGates ==
    \/ Register("Ann", MemberEmail, "PhD Student", MemberPassword, TRUE, FALSE, 1)
    \/ Login(RootEmail, RootPassword) \/ Login(MemberEmail, MemberPassword)
    \/ \E r \in OneReq, route \in GateRoutes, header \in GateHeaders :
            Authenticate(r, route, header)
    \/ \E r \in OneReq : CheckTeamMembership(r)
    \/ \E r \in OneReq, userId \in UserIds : TeamAdd(r, userId)
    \/ \E r \in OneReq :
            Len(pubs) < FewPubs /\ PubCreate(r, ThePublication, FALSE)
    \/ \E r \in OneReq : PubMy(r)
    \/ \E r \in OneReq, id \in 1..FewPubs : PubPatchFind(r, id)
    \/ \E r \in OneReq : PubPatchUpdate(r, NoRevision, FALSE)
    \/ \E r \in OneReq :
            FlatCount < FewFlat
            /\ FlatCreate(r, "address", FlatBody("address", "v1"), FALSE)

SpecGates == Init /\ [][NextGates]_vars

\* some header of GateHeaders resolves to a stored user
SomeoneResolves(P(_)) ==
    \E header \in GateHeaders :
        /\ AuthenticateResult(header).status = 0
        /\ P(AuthenticateResult(header).id)

(***************************************************************************)
(* C21.  A request is at checkTeamMembership or in a handler only with the *)
(* user authenticate attached, a stored user.  An answer of                *)
(* checkTeamMembership and a 403 of the author check come from a step of   *)
(* such a request, and a 403 of the inline admin check is sent only when   *)
(* the header of the request resolves to a stored user without the admin   *)
(* flag.                                                                   *)
(***************************************************************************)
C21_ChecksAfterAuthenticate ==
    /\ [](\A r \in OneReq : req[r] # Idle => req[r].user \in DOMAIN users)
    /\ [][/\ last' # last /\ last'.by = "checkTeamMembership" =>
                \E r \in OneReq : /\ req[r].pc = "checkTeamMembership"
                                  /\ req[r].user \in DOMAIN users
          /\ last' # last /\ last' = Response(PubPatchRoute, 403) =>
                \E r \in OneReq : /\ req[r].pc = "handler"
                                  /\ req[r].route = PubPatchRoute
                                  /\ req[r].user \in DOMAIN users
          /\ last' # last /\ last'.by \in AdminRoutes /\ last'.status = 403 =>
                LET NotAdmin(id) == ~users[id].isAdmin
                IN  SomeoneResolves(NotAdmin)]_vars

\* the three checks have each turned a request away: the second user, a
\* team member, was refused the edit of a publication it is no author of,
\* after the admin check and the team gate had answered 403 before
C21_Witness ==
    /\ last = Response(PubPatchRoute, 403)
    /\ Len(pubs) >= 1
    /\ HasRecord(team, MaxUsers)

(***************************************************************************)
(* The routes that take a file behind a gate, middleware by middleware:    *)
(* PATCH /api/users, POST /api/publications, PATCH /api/publications/:id   *)
(* and POST /api/technology, each with the array of its declaration.       *)
(* Elsewhere the run of upload.single, which reads no store and answers    *)
(* nothing, is part of the step that passes the last gate.                 *)
(***************************************************************************)
UploadRoutes ==
    {PatchUsersRoute, PubCreateRoute, PubPatchRoute, FlatCreateRoute("technology")}

\* the order the claim gives: upload.single before the gates
UploadFirst(route) ==
    IF route \in TeamRoutes
    THEN <<"upload.single", "authenticate", "checkTeamMembership", "handler">>
    ELSE <<"upload.single", "authenticate", "handler">>

\* the middleware array of the route, then its handler
Pipeline(route) ==
    IF route \in TeamRoutes
    THEN <<"authenticate", "checkTeamMembership", "upload.single", "handler">>
    ELSE <<"authenticate", "upload.single", "handler">>

\* next(): the middleware after the one that runs
StageAfter(route, stage) ==
    LET k == CHOOSE i \in DOMAIN Pipeline(route) : Pipeline(route)[i] = stage
    IN  Pipeline(route)[k + 1]

\* the router hands the request to the first middleware of the route
Receive(r, route) ==
    /\ req[r] = Idle
    /\ req' = [req EXCEPT ![r] =
                  InFlight(route, Pipeline(route)[1], 0, NoMember, 0)]
    /\ UNCHANGED <<users, team, pubs, flat, blobs, issued, last, registeredWith>>

AuthenticateStage(r, header) ==
    LET a == AuthenticateResult(header)
    IN  /\ req[r].pc = "authenticate"
        /\ IF a.status # 0
           THEN /\ last' = Response("authenticate", a.status)
                /\ req' = [req EXCEPT ![r] = Idle]
           ELSE /\ req' = [req EXCEPT ![r].user = a.id,
                                      ![r].pc = StageAfter(req[r].route, "authenticate")]
                /\ UNCHANGED last
        /\ UNCHANGED <<users, team, pubs, flat, blobs, issued, registeredWith>>

TeamGateStage(r) ==
    /\ req[r].pc = "checkTeamMembership"
    /\ IF CheckTeamMembershipResult(req[r].user) # 0
       THEN /\ last' = Response("checkTeamMembership",
                                CheckTeamMembershipResult(req[r].user))
            /\ req' = [req EXCEPT ![r] = Idle]
       ELSE /\ req' = [req EXCEPT ![r].pc =
                           StageAfter(req[r].route, "checkTeamMembership")]
            /\ UNCHANGED last
    /\ UNCHANGED <<users, team, pubs, flat, blobs, issued, registeredWith>>

\* upload.single with memoryStorage: the file part, if the request has one,
\* is read into a buffer, and req.body is filled
UploadSingle(r, file) ==
    /\ req[r].pc = "upload.single"
    /\ req' = [req EXCEPT ![r].file = IF file THEN "buffered" ELSE "none",
                          ![r].pc = StageAfter(req[r].route, "upload.single")]
    /\ UNCHANGED <<users, team, pubs, flat, blobs, issued, last, registeredWith>>

\* the inline admin check placed after the upload of the buffered file
AdminCheckAfterUpload(r) ==
    /\ req[r].pc = "handler"
    /\ AfterAuthenticate(req[r].route, req[r].user) # NoResponse
    /\ blobs < MaxBlobs
    /\ blobs' = blobs + 1
    /\ last' = AfterAuthenticate(req[r].route, req[r].user)
    /\ req' = [req EXCEPT ![r] = Idle]
    /\ UNCHANGED <<users, team, pubs, flat, issued, registeredWith>>

\* the first statement of a handler with the inline admin check
AdminCheckStage(r) ==
    /\ req[r].pc = "handler"
    /\ AfterAuthenticate(req[r].route, req[r].user) # NoResponse
    /\ last' = AfterAuthenticate(req[r].route, req[r].user)
    /\ req' = [req EXCEPT ![r] = Idle]
    /\ UNCHANGED <<users, team, pubs, flat, blobs, issued, registeredWith>>

\* the handler of the route, with the file upload.single has left in req.file
HandlerStage(r) ==
    LET file == req[r].file = "buffered"
    IN  /\ req[r].pc \in {"handler", "findByIdAndUpdate"}
        /\ req[r].user \in DOMAIN users
        /\ AfterAuthenticate(req[r].route, req[r].user) = NoResponse
        /\ \/ PatchUsers(r, RoleChange, TRUE, file, 1)
           \/ Len(pubs) < FewPubs /\ PubCreate(r, ThePublication, file)
           \/ \E id \in 1..FewPubs : PubPatchFind(r, id)
           \/ PubPatchUpdate(r, NoRevision, file)
           \/ FlatCount < FewFlat
              /\ FlatCreate(r, "technology", FlatBody("technology", "v1"), file)

NextUpload ==
    \/ Register("Ann", MemberEmail, "PhD Student", MemberPassword, TRUE, FALSE, 1)
    \/ Login(RootEmail, RootPassword) \/ Login(MemberEmail, MemberPassword)
    \/ \E r \in OneReq, header \in BearerHeaders :
            Authenticate(r, TeamAddRoute, header)
    \/ \E r \in OneReq : TeamAdd(r, 1)
    \/ \E r \in OneReq, route \in UploadRoutes : Receive(r, route)
    \/ \E r \in OneReq, header \in GateHeaders : AuthenticateStage(r, header)
    \/ \E r \in OneReq : TeamGateStage(r)
    \/ \E r \in OneReq, file \in BOOLEAN : UploadSingle(r, file)
    \/ \E r \in OneReq : AdminCheckStage(r)
    \/ \E r \in OneReq : HandlerStage(r)

SpecUpload == Init /\ [][NextUpload]_vars

C23_ToggleFlipsOnce ==
    [][\A r \in Reqs :
          /\ req[r].route = TeamAlumniRoute
          /\ req[r].pc = "save"
          /\ req'[r] = Idle
          /\ last'.by = TeamAlumniRoute /\ last'.status = 200
          => \E before \in team, after \in team' :
                /\ before._id = req[r].member._id
                /\ after._id = before._id
                /\ after.isAlumni = ~before.isAlumni]_vars

(***************************************************************************)
(* Password changes, one request at a time: a second user registers, logs  *)
(* in with any password of the model, and changes its password through     *)
(* PATCH /api/users to a short or a long one.                              *)
(***************************************************************************)
\* 72 characters, and two passwords that continue them differently
LongPrefix == "012345678901234567890123456789012345678901234567890123456789012345678901"
LongPasswords == {LongPrefix \o "A", LongPrefix \o "B"}

NewPasswords == {"hunter2", "secret123", " pass "} \cup LongPasswords

\* what updates.password && updates.password.trim() !== '' lets through
NonBlank(password) ==
    password # Absent /\ password # "" /\ Trim(password) # ""

NextPassword ==
    \/ Register("Ann", MemberEmail, "PhD Student", MemberPassword, TRUE, FALSE, 1)
    \/ Login(RootEmail, RootPassword)
    \/ \E password \in NewPasswords : Login(MemberEmail, password)
    \/ \E r \in OneReq, header \in BearerHeaders :
            Authenticate(r, PatchUsersRoute, header)
    \/ \E r \in OneReq, password \in NewPasswords \cup {"  "}, salt \in Salts :
            PatchUsers(r, UserBody(Absent, password, Absent, Absent, Absent),
                       TRUE, FALSE, salt)

SpecPassword == Init /\ [][NextPassword]_vars

(***************************************************************************)
(* C24.  In the state after a PATCH /api/users with a non-blank password P *)
(* that is answered 200, the login of the user with its email and P is     *)
(* answered 200, and its login with any other password that was accepted   *)
(* before the update is answered 400.                                      *)
(***************************************************************************)
C24_PasswordReplaced ==
    [][\A r \in OneReq, P \in NewPasswords, salt \in Salts :
          /\ NonBlank(P)
          /\ PatchUsers(r, UserBody(Absent, P, Absent, Absent, Absent),
                        TRUE, FALSE, salt)
          /\ last'.status = 200
          => \A E \in Emails : E = users[req[r].user].email =>
                 /\ LoginResult(E, P)'.status = 200
                 /\ \A Q \in NewPasswords \ {P} :
                       LoginResult(E, Q).status = 200 =>
                           LoginResult(E, Q)'.status = 400]_vars

(***************************************************************************)
(* C25.  On every flat entity the answer of the list is 200 with the       *)
(* documents of the collection, all of them and no other.  The collection  *)
(* gains a document only in the step of a create answered 201, which adds  *)
(* one document and keeps the others in place, and no step takes a         *)
(* document out: a document created is in every later list.                *)
(***************************************************************************)
C25_ListHoldsAllCreated ==
    /\ [](\A e \in FlatEntities :
            last.by = FlatListRoute(e) =>
                last.status = 200 /\ last.body = flat[e])
    /\ [][\A e \in FlatEntities :
            /\ DOMAIN flat[e] \subseteq DOMAIN flat'[e]
            /\ Len(flat'[e]) > Len(flat[e]) =>
                    /\ last' = Response(FlatCreateRoute(e), 201)
                    /\ Len(flat'[e]) = Len(flat[e]) + 1
                    /\ SubSeq(flat'[e], 1, Len(flat[e])) = flat[e]
            /\ \A r \in OneReq :
                    /\ req[r].route = FlatCreateRoute(e)
                    /\ req[r].pc = "handler"
                    /\ req'[r] = Idle
                    /\ last'.status = 201
                    => Len(flat'[e]) = Len(flat[e]) + 1]_vars

\* the list of an entity was answered with two documents, the first of
\* them updated since its creation
C25_Witness ==
    \E e \in FlatEntities :
        /\ last.by = FlatListRoute(e)
        /\ Len(last.body) = MaxFlat
        /\ last.body[1][KeyField(e)] = "v2"
        /\ last.body[MaxFlat][KeyField(e)] = "v1"

\* the header carries a value: it is present and not the empty string
HasValue(h) == h.present /\ h # EmptyHeader

(***************************************************************************)
(* C26.  For every header with a value, authenticate decides by the        *)
(* segment between the first space and the next one alone: the answer is   *)
(* that of the header "Bearer" followed by that segment, whatever stands   *)
(* before the first space and after the second.  A header without a space  *)
(* is answered 400, also when it is a token the service has issued.        *)
(***************************************************************************)
C26_SegmentAfterFirstSpace ==
    \A h \in ClientHeaders : HasValue(h) =>
        /\ Len(h.segs) >= 2 => AuthenticateResult(h) = AuthenticateResult(Bearer(h.segs[2]))
        /\ Len(h.segs) = 1 => AuthenticateResult(h) = [status |-> 400, id |-> 0]

\* a token has been issued that is accepted after "Bearer " and after a
\* single space, and the last request, which can have sent it bare, was
\* answered 400
C26_Witness ==
    /\ \E t \in issued :
          /\ AuthenticateResult(Bearer(t)).status = 0
          /\ AuthenticateResult(HeaderOf(<<TextSeg(""), t>>)).status = 0
          /\ AuthenticateResult(HeaderOf(<<t>>)).status = 400
    /\ last = Response("authenticate", 400)
    /\ Len(users) = MaxUsers

(***************************************************************************)
(* The same routes with both users on the team, so that a team member who  *)
(* is not among the authors of the publication asks to edit it.            *)
(***************************************************************************)
NextReject ==
    \/ Register("Ann", MemberEmail, "PhD Student", MemberPassword, TRUE, FALSE, 1)
    \/ Login(RootEmail, RootPassword) \/ Login(MemberEmail, MemberPassword)
    \/ \E r \in OneReq, header \in BearerHeaders :
            Authenticate(r, TeamAddRoute, header)
    \/ \E r \in OneReq, userId \in 1..MaxUsers : TeamAdd(r, userId)
    \/ \E r \in OneReq, route \in UploadRoutes : Receive(r, route)
    \/ \E r \in OneReq, header \in GateHeaders : AuthenticateStage(r, header)
    \/ \E r \in OneReq : TeamGateStage(r)
    \/ \E r \in OneReq, file \in BOOLEAN : UploadSingle(r, file)
    \/ \E r \in OneReq : AdminCheckStage(r)
    \/ \E r \in OneReq : HandlerStage(r)

SpecReject == Init /\ [][NextReject]_vars

(***************************************************************************)
(* C27.  A request that authenticate, checkTeamMembership, the inline      *)
(* admin check or the author check of PATCH /api/publications/:id answers  *)
(* with 401, 400 or 403 writes nothing: the step that answers it leaves    *)
(* the users, the team, the publications, the flat collections and the     *)
(* object storage as they were, whether or not upload.single had buffered  *)
(* a file for it.                                                          *)
(***************************************************************************)
Rejected(r) ==
    /\ req[r] # Idle
    /\ req'[r] = Idle
    /\ \/ /\ last'.by \in {"authenticate", "checkTeamMembership"}
          /\ last'.status \in {400, 401, 403}
       \/ /\ last'.by \in AdminRoutes \cup {PubPatchRoute}
          /\ last'.status = 403

C27_RejectionWritesNothing ==
    [][\A r \in OneReq :
          Rejected(r) => UNCHANGED <<users, team, pubs, flat, blobs>>]_vars

\* a user who is not among the authors was answered 403 while a
\* publication with its cover image is in the store
C27_Witness ==
    /\ last = Response(PubPatchRoute, 403)
    /\ Len(pubs) = 1
    /\ blobs = 1
    /\ Cardinality(team) = MaxUsers

(***************************************************************************)
(* Edits of one publication by requests in flight at once, next to the     *)
(* removal of the requester from the team: an edit that changes the title  *)
(* and an edit that hands the publication over to another author.          *)
(***************************************************************************)
Retitle == PubBody("On posets", AbsentAuthors, 0)
HandOver == PubBody(Absent, <<MaxUsers>>, 0)

RaceRoutes == {TeamAddRoute, TeamDelRoute, PubCreateRoute, PubPatchRoute}

NextRace ==
    \/ Login(RootEmail, RootPassword)
    \/ \E r \in Reqs, route \in RaceRoutes, header \in BearerHeaders :
            Authenticate(r, route, header)
    \/ \E r \in Reqs : CheckTeamMembership(r)
    \/ \E r \in Reqs : TeamAdd(r, 1)
    \/ \E r \in Reqs : TeamDel(r, 1)
    \/ \E r \in Reqs : Len(pubs) < FewPubs /\ PubCreate(r, ThePublication, FALSE)
    \/ \E r \in Reqs, id \in 1..FewPubs : PubPatchFind(r, id)
    \/ \E r \in Reqs, body \in {Retitle, HandOver} : PubPatchUpdate(r, body, FALSE)

SpecRace == Init /\ [][NextRace]_vars

\* the step of slot r is Publication.findByIdAndUpdate answered 200
PubPatchWrites(r) ==
    /\ req[r].route = PubPatchRoute
    /\ req[r].pc = "findByIdAndUpdate"
    /\ req'[r] = Idle
    /\ last'.status = 200

(***************************************************************************)
(* C28.  Every update that PATCH /api/publications/:id writes comes from a *)
(* user who, in the state the update is written in, is among the authors   *)
(* of the publication and has a Team document, also when the request runs  *)
(* next to another edit or next to the removal of the membership.          *)
(***************************************************************************)
C28_WriterIsAuthorAndMember ==
    [][\A r \in Reqs : PubPatchWrites(r) =>
          /\ HasRecord(team, req[r].user)
          /\ Includes(pubs[req[r].pub].authors, req[r].user)]_vars

(***************************************************************************)
(* C29.  PATCH /api/users writes to the document of the user authenticate  *)
(* attached and to no other: whatever the body, the step of the handler    *)
(* leaves the number of users and the record of every other user as they   *)
(* were.                                                                   *)
(***************************************************************************)
C29_OnlyOwnRecord ==
    [][\A r \in OneReq :
          /\ req[r].route = PatchUsersRoute
          /\ req[r].pc = "handler"
          /\ req'[r] = Idle
          => /\ Len(users') = Len(users)
             /\ \A u \in DOMAIN users :
                    u # req[r].user => users'[u] = users[u]]_vars

\* the registered user has made itself an administrator and has changed its
\* email and password, and the record of the root user is as it was created
C29_Witness ==
    /\ last = Response(PatchUsersRoute, 200)
    /\ Len(users) = MaxUsers
    /\ users[MaxUsers].isAdmin
    /\ ~registeredWith[MaxUsers].intact
    /\ users[1] = RootUser

(***************************************************************************)
(* C30.  A login that is refused is answered the same whether or not the   *)
(* email is registered: the answer to a request that names a registered    *)
(* email without the password of that user is the answer the same request  *)
(* gets with an email that matches no user, 400 and no token.              *)
(***************************************************************************)
C30_RefusalsAlike ==
    [][\A e \in Emails, p \in Passwords \cup {Absent} :
          /\ Login(e, p)
          /\ FindUserByEmail(e) # 0
          /\ LoginResult(e, p).status # 200
          => /\ last' = Response(LoginRoute, 400)
             /\ \A e0 \in Emails : FindUserByEmail(e0) = 0 =>
                    LoginResult(e0, p) = LoginResult(e, p)]_vars
====
